---- MODULE Spec2Model ----
(***************************************************************************)
(* A model of sp-trie's value-storage layer (primitives/trie/src/lib.rs):  *)
(* TrieMeta and its callbacks, the StateHasher / NoMetaHasher policies,    *)
(* inner_hashed_value, the KeySpacedDB / KeySpacedDBMut wrappers and       *)
(* delta_trie_root.                                                        *)
(*                                                                         *)
(* Bytes are naturals in 0..255, byte slices are sequences.  An            *)
(* Option<Range<usize>> is <<>> for None and <<start, end>> for Some.      *)
(* The hasher H is a type parameter of the source; it is modelled by a     *)
(* concrete checksum producing HashLen bytes.                              *)
(***************************************************************************)
EXTENDS Integers, Sequences, FiniteSets, TLC

VARIABLES
    \* StateHasher / NoMetaHasher applied to drawn inputs
    h_op, h_value, h_meta, h_stored, h_parent, h_out,
    \* inner_hashed_value applied to drawn inputs
    i_op, i_x, i_range, i_out,
    \* write_state_meta followed by read_state_meta
    k_op, k_m, k_tail, k_data, k_reader, k_offset,
    \* one node's record, encoded bytes and stored bytes over its life
    l_pc, l_meta, l_node, l_stored, l_phase,
    \* the backing store shared by the keyspace views
    s_db, s_log, s_n,
    \* one call of delta_trie_root
    d_pc, d_input, d_present, d_old, d_delta, d_trie, d_calls, d_root

hVars == <<h_op, h_value, h_meta, h_stored, h_parent, h_out>>
iVars == <<i_op, i_x, i_range, i_out>>
kVars == <<k_op, k_m, k_tail, k_data, k_reader, k_offset>>
lVars == <<l_pc, l_meta, l_node, l_stored, l_phase>>
sVars == <<s_db, s_log, s_n>>
dVars == <<d_pc, d_input, d_present, d_old, d_delta, d_trie, d_calls, d_root>>
vars == <<hVars, iVars, kVars, lVars, sVars, dVars>>

\* ------------------------------------------------------------------------
\* trie_constants
\* ------------------------------------------------------------------------
INNER_HASH_TRESHOLD == 33
EMPTY_TRIE == 0
ENCODED_META_ALLOW_HASH == 1
DEAD_HEADER_META_HASHED_VALUE == 2
OLD_HASHING == 3

\* ------------------------------------------------------------------------
\* Bounds of the model
\* ------------------------------------------------------------------------
\* Length in bytes of H::Out for the modelled hasher.
HashLen == 32
\* Value lengths go up to INNER_HASH_TRESHOLD + MaxOver.
MaxOver == 1
\* Longest raw stored byte sequence handed to extract_value / read_state_meta.
MaxStoredLen == 3
\* Longest delta batch handed to delta_trie_root.
MaxDelta == 3
\* Number of insert/remove operations on the shared backing store.
MaxDbOps == 3
\* Longest byte slice handed to inner_hashed_value on its own.
MaxInnerLen == 3
\* Longest chain of records created parent to child.
MaxChain == 3

\* ------------------------------------------------------------------------
\* Byte-slice helpers
\* ------------------------------------------------------------------------
None == <<>>

\* x[a..b] of the source: zero-based, half-open.
Slice(x, a, b) == SubSeq(x, a + 1, b)

\* vec![b; n]
Fill(n, b) == [i \in 1..n |-> b]

RECURSIVE Checksum(_)
Checksum(x) ==
    IF x = <<>> THEN 7
    ELSE (Checksum(SubSeq(x, 1, Len(x) - 1)) * 31 + x[Len(x)] + 1) % 65521

\* H::hash(x).as_ref(): HashLen bytes determined by the input bytes.
H_hash(x) ==
    LET c == Checksum(x)
    IN  [i \in 1..HashLen |->
            IF i = 1 THEN c % 256
            ELSE IF i = 2 THEN (c \div 256) % 256
            ELSE (c + 37 * i) % 256]

\* ------------------------------------------------------------------------
\* inner_hashed_value
\* ------------------------------------------------------------------------
\* The slice expression &x[start..end] of the middle case panics when
\* start > end; that is the only place the function can fail.
inner_hashed_value_panics(x, range) ==
    /\ range # None
    /\ LET start == range[1]
           end == range[2]
           len == Len(x)
       IN  /\ ~(start < len /\ end = len)
           /\ ~(start = 0 /\ end < len)
           /\ start < len /\ end < len
           /\ start > end

\* Faulty variant: the bytes after the replaced range are lost.
inner_hashed_value_drops_tail(x, range) ==
    IF range # None
    THEN LET start == range[1]
             end == range[2]
             len == Len(x)
         IN  IF start < len /\ end = len
             THEN Slice(x, 0, start) \o H_hash(Slice(x, start, len))
             ELSE IF start = 0 /\ end < len
             THEN H_hash(Slice(x, 0, start))
             ELSE IF start < len /\ end < len
             THEN Slice(x, 0, start) \o H_hash(Slice(x, start, end))
             ELSE x
    ELSE x

inner_hashed_value(x, range) ==
    IF range # None
    THEN LET start == range[1]
             end == range[2]
             len == Len(x)
         IN  IF start < len /\ end = len
             THEN \* terminal inner hash
                  Slice(x, 0, start) \o H_hash(Slice(x, start, len))
             ELSE IF start = 0 /\ end < len
             THEN \* start inner hash: the digest is of x[..start]
                  H_hash(Slice(x, 0, start)) \o Slice(x, end, len)
             ELSE IF start < len /\ end < len
             THEN \* middle inner hash
                  Slice(x, 0, start) \o H_hash(Slice(x, start, end))
                      \o Slice(x, end, len)
             ELSE x
    ELSE x

\* ------------------------------------------------------------------------
\* TrieMeta
\* ------------------------------------------------------------------------
TrieMeta_default ==
    [range |-> None,
     recorded_do_value_hash |-> FALSE,
     contain_hash |-> FALSE,
     do_value_hash |-> FALSE,
     unused_value |-> FALSE,
     old_hash |-> FALSE]

\* range.end - range.start
RangeLen(range) == range[2] - range[1]

\* Faulty variant: only the recorded flag is set.
set_state_meta_recorded_only(meta, state_meta) ==
    [meta EXCEPT !.recorded_do_value_hash = state_meta]

set_state_meta(meta, state_meta) ==
    [meta EXCEPT !.recorded_do_value_hash = state_meta,
                 !.do_value_hash = state_meta]

has_state_meta(meta) == meta.recorded_do_value_hash

\* data[0] is an out-of-bounds index on an empty slice.
read_state_meta_panics(data) == data = <<>>

\* Faulty variant: the marker byte is not recognised.
read_state_meta_ignores_marker(meta, data) == meta

\* The record after read_state_meta(data), for non-empty data.
read_state_meta(meta, data) ==
    IF data[1] = ENCODED_META_ALLOW_HASH
    THEN [meta EXCEPT !.recorded_do_value_hash = TRUE, !.do_value_hash = TRUE]
    ELSE meta

\* The Ok(offset) of read_state_meta(data), for non-empty data.
read_state_meta_offset(data) ==
    IF data[1] = ENCODED_META_ALLOW_HASH THEN 1 ELSE 0

write_state_meta(meta) ==
    IF meta.recorded_do_value_hash THEN <<ENCODED_META_ALLOW_HASH>> ELSE <<>>

\* parent is None (<<>>) or <<parent_meta>>.
\* Faulty variant: the parent's policy is not taken over.
meta_for_new_ignores_parent(parent) == TrieMeta_default

meta_for_new(parent) ==
    [TrieMeta_default EXCEPT
        !.do_value_hash = IF parent = None THEN FALSE ELSE parent[1].do_value_hash]

meta_for_existing_inline_node(parent) == meta_for_new(parent)

meta_for_empty == TrieMeta_default

\* A ValuePlan is [kind |-> "Value" | "HashedValue" | "NoValue", range |-> _].
\* Faulty variant: the switch of hashing scheme is forgotten.
encoded_value_callback_keeps_old_hash(meta, value_plan) ==
    IF value_plan.kind = "NoValue" THEN meta
    ELSE [meta EXCEPT !.range = value_plan.range,
                      !.contain_hash = (value_plan.kind = "HashedValue")]

encoded_value_callback(meta, value_plan) ==
    IF value_plan.kind = "NoValue" THEN meta
    ELSE LET m1 == [meta EXCEPT !.range = value_plan.range,
                                !.contain_hash = (value_plan.kind = "HashedValue")]
         IN  IF m1.do_value_hash THEN [m1 EXCEPT !.old_hash = FALSE] ELSE m1

\* node_plan.value_plan() is None (<<>>) or <<value_plan>>.
decoded_callback(meta, node_value_plan) ==
    IF node_value_plan = None THEN meta
    ELSE IF node_value_plan[1].kind = "NoValue" THEN meta
    ELSE [meta EXCEPT !.range = node_value_plan[1].range,
                      !.contain_hash = (node_value_plan[1].kind = "HashedValue")]

contains_hash_of_value(meta) == meta.contain_hash

\* Faulty variant: the flag is returned as it is.
accessed_value_not_negated(meta) == meta.unused_value

accessed_value(meta) == ~meta.unused_value

set_accessed_value(meta, accessed) == [meta EXCEPT !.unused_value = ~accessed]

\* ------------------------------------------------------------------------
\* StateHasher: MetaHasher<H, DBValue>
\* ------------------------------------------------------------------------
\* Faulty variant: the threshold test is strict.
StateHasher_hash_strict_threshold(value, meta) ==
    IF meta.range # None /\ ~meta.contain_hash /\ ~meta.old_hash
    THEN IF meta.do_value_hash /\ RangeLen(meta.range) > INNER_HASH_TRESHOLD
         THEN H_hash(inner_hashed_value(value, meta.range))
         ELSE H_hash(value)
    ELSE H_hash(value)

\* Faulty variant: the legacy scheme is not excluded.
StateHasher_hash_ignores_old_hash(value, meta) ==
    IF meta.range # None /\ ~meta.contain_hash
    THEN IF meta.do_value_hash /\ RangeLen(meta.range) >= INNER_HASH_TRESHOLD
         THEN H_hash(inner_hashed_value(value, meta.range))
         ELSE H_hash(value)
    ELSE H_hash(value)

StateHasher_hash(value, meta) ==
    IF meta.range # None /\ ~meta.contain_hash /\ ~meta.old_hash
    THEN IF meta.do_value_hash /\ RangeLen(meta.range) >= INNER_HASH_TRESHOLD
         THEN H_hash(inner_hashed_value(value, meta.range))
         ELSE H_hash(value)
    ELSE IF meta.range # None /\ meta.contain_hash
    THEN \* value contains a hash of data (already inner_hashed_value)
         H_hash(value)
    ELSE H_hash(value)

\* Faulty variant: an already hashed value is flagged before the legacy test.
StateHasher_stored_value_hash_first(value, meta) ==
    IF meta.contain_hash
    THEN <<DEAD_HEADER_META_HASHED_VALUE>> \o value
    ELSE IF meta.old_hash
    THEN <<OLD_HASHING>> \o value
    ELSE IF ~meta.do_value_hash /\ meta.range # None
            /\ RangeLen(meta.range) >= INNER_HASH_TRESHOLD
    THEN <<OLD_HASHING>> \o value
    ELSE IF meta.unused_value /\ meta.range # None
            /\ RangeLen(meta.range) >= INNER_HASH_TRESHOLD
    THEN <<DEAD_HEADER_META_HASHED_VALUE>>
             \o inner_hashed_value(value, meta.range)
    ELSE value

\* Faulty variant: the threshold test of the substitution rule is strict.
StateHasher_stored_value_strict_threshold(value, meta) ==
    IF meta.old_hash
    THEN <<OLD_HASHING>> \o value
    ELSE IF ~meta.do_value_hash /\ meta.range # None
            /\ RangeLen(meta.range) >= INNER_HASH_TRESHOLD
    THEN <<OLD_HASHING>> \o value
    ELSE IF meta.contain_hash
    THEN <<DEAD_HEADER_META_HASHED_VALUE>> \o value
    ELSE IF meta.unused_value /\ meta.range # None
            /\ RangeLen(meta.range) > INNER_HASH_TRESHOLD
    THEN <<DEAD_HEADER_META_HASHED_VALUE>>
             \o inner_hashed_value(value, meta.range)
    ELSE value

\* Faulty variant: a long value written while hashing is inactive is not
\* degraded to the legacy form.
StateHasher_stored_value_no_degrade(value, meta) ==
    IF meta.old_hash
    THEN <<OLD_HASHING>> \o value
    ELSE IF meta.contain_hash
    THEN <<DEAD_HEADER_META_HASHED_VALUE>> \o value
    ELSE IF meta.unused_value /\ meta.range # None
            /\ RangeLen(meta.range) >= INNER_HASH_TRESHOLD
    THEN <<DEAD_HEADER_META_HASHED_VALUE>>
             \o inner_hashed_value(value, meta.range)
    ELSE value

StateHasher_stored_value(value, meta) ==
    IF meta.old_hash
    THEN \* write as old hash
         <<OLD_HASHING>> \o value
    ELSE IF ~meta.do_value_hash /\ meta.range # None
            /\ RangeLen(meta.range) >= INNER_HASH_TRESHOLD
    THEN \* write as old hash
         <<OLD_HASHING>> \o value
    ELSE IF meta.contain_hash
    THEN \* already contain hash, just flag it
         <<DEAD_HEADER_META_HASHED_VALUE>> \o value
    ELSE IF meta.unused_value /\ meta.range # None
            /\ RangeLen(meta.range) >= INNER_HASH_TRESHOLD
    THEN \* store hash instead of value
         <<DEAD_HEADER_META_HASHED_VALUE>>
             \o inner_hashed_value(value, meta.range)
    ELSE value

StateHasher_stored_value_owned(value, meta) == StateHasher_stored_value(value, meta)

\* The two marker tests of extract_value, in order: what is left of `stored`.
StripHashed(stored) ==
    IF stored # <<>> /\ stored[1] = DEAD_HEADER_META_HASHED_VALUE
    THEN Tail(stored) ELSE stored

StripOld(input) ==
    IF input # <<>> /\ input[1] = OLD_HASHING THEN Tail(input) ELSE input

\* read_state_meta(stored) indexes stored[0] after the markers are stripped.
StateHasher_extract_value_panics(stored) ==
    read_state_meta_panics(StripOld(StripHashed(stored)))

\* Faulty variant: the offset of the policy marker is applied to the bytes.
StateHasher_extract_value_applies_offset(stored, parent_meta) ==
    LET contain_hash == stored # <<>> /\ stored[1] = DEAD_HEADER_META_HASHED_VALUE
        input1 == StripHashed(stored)
        old_hash == input1 # <<>> /\ input1[1] = OLD_HASHING
        input2 == StripOld(input1)
        meta0 == [range |-> None,
                  unused_value |-> contain_hash,
                  contain_hash |-> contain_hash,
                  do_value_hash |-> FALSE,
                  recorded_do_value_hash |-> FALSE,
                  old_hash |-> old_hash]
        meta1 == read_state_meta(meta0, input2)
        meta2 == [meta1 EXCEPT !.do_value_hash =
                     meta1.recorded_do_value_hash
                     \/ (IF parent_meta = None THEN FALSE
                         ELSE parent_meta[1].do_value_hash)]
    IN  <<Slice(input2, read_state_meta_offset(input2), Len(input2)), meta2>>

\* Faulty variant: the parent's policy is not taken over.
StateHasher_extract_value_ignores_parent(stored, parent_meta) ==
    LET contain_hash == stored # <<>> /\ stored[1] = DEAD_HEADER_META_HASHED_VALUE
        input1 == StripHashed(stored)
        old_hash == input1 # <<>> /\ input1[1] = OLD_HASHING
        input2 == StripOld(input1)
        meta0 == [range |-> None,
                  unused_value |-> contain_hash,
                  contain_hash |-> contain_hash,
                  do_value_hash |-> FALSE,
                  recorded_do_value_hash |-> FALSE,
                  old_hash |-> old_hash]
        meta1 == read_state_meta(meta0, input2)
    IN  <<input2, [meta1 EXCEPT !.do_value_hash = meta1.recorded_do_value_hash]>>

\* <<remaining bytes, meta>>, for stored bytes on which it does not panic.
StateHasher_extract_value(stored, parent_meta) ==
    LET contain_hash == stored # <<>> /\ stored[1] = DEAD_HEADER_META_HASHED_VALUE
        input1 == StripHashed(stored)
        old_hash == input1 # <<>> /\ input1[1] = OLD_HASHING
        input2 == StripOld(input1)
        meta0 == [range |-> None,
                  unused_value |-> contain_hash,
                  contain_hash |-> contain_hash,
                  do_value_hash |-> FALSE,
                  recorded_do_value_hash |-> FALSE,
                  old_hash |-> old_hash]
        \* get recorded_do_value_hash; the offset is not applied
        meta1 == read_state_meta(meta0, input2)
        meta2 == [meta1 EXCEPT !.do_value_hash =
                     meta1.recorded_do_value_hash
                     \/ (IF parent_meta = None THEN FALSE
                         ELSE parent_meta[1].do_value_hash)]
    IN  <<input2, meta2>>

\* stored.split_off(len - v.len()) with v the borrowed form's slice.
StateHasher_extract_value_owned(stored, parent_meta) ==
    LET r == StateHasher_extract_value(stored, parent_meta)
        removed == Len(stored) - Len(r[1])
    IN  <<Slice(stored, removed, Len(stored)), r[2]>>

\* ------------------------------------------------------------------------
\* NoMetaHasher: MetaHasher<H, DBValue>
\* ------------------------------------------------------------------------
NoMetaHasher_hash(value, meta) == H_hash(value)

\* Faulty variant: the record's markers are written as StateHasher does.
NoMetaHasher_stored_value_marks(value, meta) ==
    StateHasher_stored_value(value, meta)

NoMetaHasher_stored_value(value, meta) == value

NoMetaHasher_stored_value_owned(value, meta) == value

NoMetaHasher_extract_value(stored, parent_meta) == <<stored, TrieMeta_default>>

NoMetaHasher_extract_value_owned(stored, parent_meta) == <<stored, TrieMeta_default>>

\* ------------------------------------------------------------------------
\* estimate_entry_size
\* ------------------------------------------------------------------------
\* Vec<u8>::encoded_size(): the compact length prefix and the bytes.
encoded_size(value) ==
    (IF Len(value) < 64 THEN 1 ELSE IF Len(value) < 16384 THEN 2 ELSE 4)
        + Len(value)

\* full_encoded -= value_size goes below zero when the range is longer than
\* the encoding: a panic with overflow checks, a wrap-around without.
estimate_entry_size_overflows(entry) ==
    /\ entry[2].unused_value
    /\ entry[2].range # None
    /\ RangeLen(entry[2].range) >= INNER_HASH_TRESHOLD
    /\ encoded_size(entry[1]) < RangeLen(entry[2].range)

\* The value returned; after a wrap-around the two additions bring the sum
\* back to the same number, hash_len + 1 being no less than what was missing.
estimate_entry_size(entry, hash_len) ==
    IF entry[2].unused_value /\ entry[2].range # None
           /\ RangeLen(entry[2].range) >= INNER_HASH_TRESHOLD
    THEN encoded_size(entry[1]) - RangeLen(entry[2].range) + hash_len + 1
    ELSE encoded_size(entry[1])

\* ------------------------------------------------------------------------
\* Input domains
\* ------------------------------------------------------------------------
BOOL == {TRUE, FALSE}

\* Lengths of the values carried by the modelled nodes, around the threshold.
ValueLens == {0, 1, INNER_HASH_TRESHOLD - 1}
                 \cup (INNER_HASH_TRESHOLD..(INNER_HASH_TRESHOLD + MaxOver))

\* An encoded leaf: header, partial key, length, then the value (at 3..3+n).
LeafNode(n) == <<66, 170, (4 * n) % 256>> \o Fill(n, 187)

\* An encoded branch with a value (at 3..3+n) followed by child data.
BranchNode(n) == <<194, 10, (4 * n) % 256>> \o Fill(n, 187) \o <<128, 77>>

\* Bytes whose value sits at the very start (at 0..n).
HeadValue(n) == Fill(n, 187) \o <<77>>

Values ==
    {LeafNode(n) : n \in ValueLens} \cup {BranchNode(n) : n \in ValueLens}
        \cup {HeadValue(INNER_HASH_TRESHOLD)}

\* Ranges as the codec's plans give them: start <= end.
Ranges == {<<s, s + n>> : s \in {0, 3}, n \in ValueLens}

Metas ==
    [range : {None} \cup Ranges,
     recorded_do_value_hash : BOOL,
     contain_hash : BOOL,
     do_value_hash : BOOL,
     unused_value : BOOL,
     old_hash : BOOL]

RECURSIVE SeqsUpTo(_, _)
SeqsUpTo(S, n) ==
    IF n = 0 THEN {<<>>}
    ELSE LET shorter == SeqsUpTo(S, n - 1)
         IN  shorter \cup {Append(q, b) : q \in shorter, b \in S}

\* Marker bytes and one leaf header.
StoredBytes == {ENCODED_META_ALLOW_HASH, DEAD_HEADER_META_HASHED_VALUE,
                OLD_HASHING, 66}

StoredInputs == SeqsUpTo(StoredBytes, MaxStoredLen)

Parents ==
    {None, <<TrieMeta_default>>,
     <<[TrieMeta_default EXCEPT !.do_value_hash = TRUE]>>}

\* ------------------------------------------------------------------------
\* The hashers applied to drawn inputs
\* ------------------------------------------------------------------------
HasherIdle ==
    /\ h_op = "idle"
    /\ h_value = <<>>
    /\ h_meta = TrieMeta_default
    /\ h_stored = <<>>
    /\ h_parent = None
    /\ h_out = <<>>

HasherInit ==
    /\ h_op = "input"
    /\ h_out = <<>>
    /\ \/ /\ h_value \in Values
          /\ h_meta \in Metas
          /\ h_stored = <<>>
          /\ h_parent = None
       \/ /\ h_value = <<>>
          /\ h_meta = TrieMeta_default
          /\ h_stored \in StoredInputs
          /\ h_parent \in Parents

HashValue ==
    /\ h_op = "input"
    /\ h_op' = "hash"
    /\ h_out' = StateHasher_hash(h_value, h_meta)
    /\ UNCHANGED <<h_value, h_meta, h_stored, h_parent>>
    /\ UNCHANGED <<iVars, kVars, lVars, sVars, dVars>>

StoreValue ==
    /\ h_op = "input"
    /\ h_op' = "stored_value"
    /\ h_out' = StateHasher_stored_value(h_value, h_meta)
    /\ UNCHANGED <<h_value, h_meta, h_stored, h_parent>>
    /\ UNCHANGED <<iVars, kVars, lVars, sVars, dVars>>

ExtractValue ==
    /\ h_op = "input"
    /\ IF StateHasher_extract_value_panics(h_stored)
       THEN h_op' = "panic" /\ h_out' = <<>>
       ELSE /\ h_op' = "extract_value"
            /\ h_out' = StateHasher_extract_value(h_stored, h_parent)
    /\ UNCHANGED <<h_value, h_meta, h_stored, h_parent>>
    /\ UNCHANGED <<iVars, kVars, lVars, sVars, dVars>>

ExtractValueOwned ==
    /\ h_op = "input"
    /\ IF StateHasher_extract_value_panics(h_stored)
       THEN h_op' = "panic" /\ h_out' = <<>>
       ELSE /\ h_op' = "extract_value_owned"
            /\ h_out' = StateHasher_extract_value_owned(h_stored, h_parent)
    /\ UNCHANGED <<h_value, h_meta, h_stored, h_parent>>
    /\ UNCHANGED <<iVars, kVars, lVars, sVars, dVars>>

HasherNext == HashValue \/ StoreValue \/ ExtractValue \/ ExtractValueOwned

\* ------------------------------------------------------------------------
\* A value written by stored_value and read back by extract_value
\* ------------------------------------------------------------------------
\* The bytes stored_value returned are what the store hands to extract_value.
LoadStored ==
    /\ h_op = "stored_value"
    /\ h_stored' = h_out
    /\ IF StateHasher_extract_value_panics(h_out)
       THEN h_op' = "panic" /\ h_out' = <<>>
       ELSE /\ h_op' = "loaded"
            /\ h_out' = StateHasher_extract_value(h_out, h_parent)
    /\ UNCHANGED <<h_value, h_meta, h_parent>>
    /\ UNCHANGED <<iVars, kVars, lVars, sVars, dVars>>

StoreLoadNext == StoreValue \/ LoadStored

\* ------------------------------------------------------------------------
\* A node stored, fetched under a parent of the same policy, and decoded
\* ------------------------------------------------------------------------
\* Where the value of an encoded node lies, as the node's own bytes tell:
\* after the three header bytes of a leaf or branch, or at the very start.
NodeValueRange(node) ==
    IF node[1] \in {66, 194} THEN <<3, 3 + (node[3] \div 4)>>
    ELSE <<0, INNER_HASH_TRESHOLD>>

\* The plan handed to decoded_callback for a fetched payload: a hash in the
\* place of the value when the record says so, the value otherwise.
PayloadPlan(payload, meta) ==
    IF meta.contain_hash
    THEN [kind |-> "HashedValue",
          range |-> <<NodeValueRange(payload)[1],
                      NodeValueRange(payload)[1] + HashLen>>]
    ELSE [kind |-> "Value", range |-> NodeValueRange(payload)]

ReloadInit ==
    /\ h_op = "input"
    /\ h_value \in Values
    /\ h_meta \in Metas
    /\ h_stored = <<>>
    /\ h_parent = <<[TrieMeta_default EXCEPT
                        !.do_value_hash = h_meta.do_value_hash]>>
    /\ h_out = <<>>

\* The fetched node is decoded and its plan recorded in the fetched record.
DecodeLoaded ==
    /\ h_op = "loaded"
    /\ h_op' = "decoded"
    /\ h_out' = <<h_out[1],
                  decoded_callback(h_out[2],
                                   <<PayloadPlan(h_out[1], h_out[2])>>)>>
    /\ UNCHANGED <<h_value, h_meta, h_stored, h_parent>>
    /\ UNCHANGED <<iVars, kVars, lVars, sVars, dVars>>

ReloadNext == StoreValue \/ LoadStored \/ DecodeLoaded

\* ------------------------------------------------------------------------
\* estimate_entry_size applied to drawn entries
\* ------------------------------------------------------------------------
EstimateInit ==
    /\ h_op = "input"
    /\ h_value \in Values
    /\ h_meta \in Metas
    /\ h_stored = <<>>
    /\ h_parent = None
    /\ h_out = <<>>

EstimateEntrySize ==
    /\ h_op = "input"
    /\ \/ /\ h_op' = "estimate_entry_size"
          /\ h_out' = estimate_entry_size(<<h_value, h_meta>>, HashLen)
       \/ /\ estimate_entry_size_overflows(<<h_value, h_meta>>)
          /\ h_op' = "panic"
          /\ h_out' = <<>>
    /\ UNCHANGED <<h_value, h_meta, h_stored, h_parent>>
    /\ UNCHANGED <<iVars, kVars, lVars, sVars, dVars>>

EstimateNext == EstimateEntrySize

\* ------------------------------------------------------------------------
\* NoMetaHasher applied to drawn inputs
\* ------------------------------------------------------------------------
\* Values that start with every reserved byte, and one long leaf.
NoMetaValues == StoredInputs \cup {LeafNode(INNER_HASH_TRESHOLD)}

NoMetaMetas ==
    {m \in Metas : m.range \in {None, <<3, 3 + INNER_HASH_TRESHOLD>>}}

NoMetaInit ==
    /\ h_op = "input"
    /\ h_value \in NoMetaValues
    /\ h_meta \in NoMetaMetas
    /\ h_stored = <<>>
    /\ h_parent \in Parents
    /\ h_out = <<>>

NoMetaFrame == UNCHANGED <<iVars, kVars, lVars, sVars, dVars>>

NoMetaHash ==
    /\ h_op = "input"
    /\ h_op' = "hash"
    /\ h_out' = NoMetaHasher_hash(h_value, h_meta)
    /\ UNCHANGED <<h_value, h_meta, h_stored, h_parent>>
    /\ NoMetaFrame

NoMetaStoredValue ==
    /\ h_op = "input"
    /\ h_op' = "stored_value"
    /\ h_stored' = NoMetaHasher_stored_value(h_value, h_meta)
    /\ UNCHANGED <<h_value, h_meta, h_parent, h_out>>
    /\ NoMetaFrame

NoMetaStoredValueOwned ==
    /\ h_op = "input"
    /\ h_op' = "stored_value_owned"
    /\ h_stored' = NoMetaHasher_stored_value_owned(h_value, h_meta)
    /\ UNCHANGED <<h_value, h_meta, h_parent, h_out>>
    /\ NoMetaFrame

\* The stored bytes are read back.
NoMetaExtractValue ==
    /\ h_op \in {"stored_value", "stored_value_owned"}
    /\ h_op' = "extract_value"
    /\ h_out' = NoMetaHasher_extract_value(h_stored, h_parent)
    /\ UNCHANGED <<h_value, h_meta, h_stored, h_parent>>
    /\ NoMetaFrame

NoMetaExtractValueOwned ==
    /\ h_op \in {"stored_value", "stored_value_owned"}
    /\ h_op' = "extract_value_owned"
    /\ h_out' = NoMetaHasher_extract_value_owned(h_stored, h_parent)
    /\ UNCHANGED <<h_value, h_meta, h_stored, h_parent>>
    /\ NoMetaFrame

NoMetaNext ==
    \/ NoMetaHash
    \/ NoMetaStoredValue
    \/ NoMetaStoredValueOwned
    \/ NoMetaExtractValue
    \/ NoMetaExtractValueOwned

\* ------------------------------------------------------------------------
\* inner_hashed_value applied to drawn inputs
\* ------------------------------------------------------------------------
InnerInputs == SeqsUpTo({5, 6}, MaxInnerLen)

\* Every Option<(usize, usize)> over the indices around the slices' lengths.
InnerRanges ==
    {None} \cup {<<s, e>> : s \in 0..(MaxInnerLen + 1), e \in 0..(MaxInnerLen + 1)}

InnerIdle ==
    /\ i_op = "idle"
    /\ i_x = <<>>
    /\ i_range = None
    /\ i_out = <<>>

InnerInit ==
    /\ i_op = "input"
    /\ i_x \in InnerInputs
    /\ i_range \in InnerRanges
    /\ i_out = <<>>

InnerHash ==
    /\ i_op = "input"
    /\ IF inner_hashed_value_panics(i_x, i_range)
       THEN i_op' = "panic" /\ i_out' = <<>>
       ELSE /\ i_op' = "inner_hashed_value"
            /\ i_out' = inner_hashed_value(i_x, i_range)
    /\ UNCHANGED <<i_x, i_range>>
    /\ UNCHANGED <<hVars, kVars, lVars, sVars, dVars>>

InnerNext == InnerHash

\* ------------------------------------------------------------------------
\* write_state_meta followed by read_state_meta
\* ------------------------------------------------------------------------
\* The writing records: every combination of the flags.
MarkerWriters == {m \in Metas : m.range = None}

\* The reading records, as extract_value builds them before the call.
MarkerReaders ==
    {[TrieMeta_default EXCEPT !.contain_hash = c, !.unused_value = c,
                              !.old_hash = o] : c \in BOOL, o \in BOOL}

MarkerIdle ==
    /\ k_op = "idle"
    /\ k_m = TrieMeta_default
    /\ k_tail = <<>>
    /\ k_data = <<>>
    /\ k_reader = TrieMeta_default
    /\ k_offset = 0

MarkerInit ==
    /\ k_op = "input"
    /\ k_m \in MarkerWriters
    /\ k_tail \in StoredInputs
    /\ k_data = <<>>
    /\ k_reader \in MarkerReaders
    /\ k_offset = 0

\* The node's bytes: write_state_meta() in front of the rest of the encoding.
WriteStateMeta ==
    /\ k_op = "input"
    /\ k_op' = "written"
    /\ k_data' = write_state_meta(k_m) \o k_tail
    /\ UNCHANGED <<k_m, k_tail, k_reader, k_offset>>
    /\ UNCHANGED <<hVars, iVars, lVars, sVars, dVars>>

ReadStateMeta ==
    /\ k_op = "written"
    /\ IF read_state_meta_panics(k_data)
       THEN k_op' = "panic" /\ UNCHANGED <<k_reader, k_offset>>
       ELSE /\ k_op' = "read"
            /\ k_reader' = read_state_meta(k_reader, k_data)
            /\ k_offset' = read_state_meta_offset(k_data)
    /\ UNCHANGED <<k_m, k_tail, k_data>>
    /\ UNCHANGED <<hVars, iVars, lVars, sVars, dVars>>

MarkerNext == WriteStateMeta \/ ReadStateMeta

\* ------------------------------------------------------------------------
\* One node over its life: record, encoded bytes, stored bytes
\* ------------------------------------------------------------------------
\* The encoded nodes a life starts from: leaves with values of 1, 32, 33 bytes.
LifeNodes == {LeafNode(1), LeafNode(INNER_HASH_TRESHOLD - 1),
              LeafNode(INNER_HASH_TRESHOLD)}

\* The plans the codec reports for them.
PlanRanges == {<<3, 4>>, <<3, 3 + INNER_HASH_TRESHOLD - 1>>,
               <<3, 3 + INNER_HASH_TRESHOLD>>}

ValuePlans ==
    {[kind |-> "NoValue", range |-> None]}
        \cup [kind : {"Value", "HashedValue"}, range : PlanRanges]

\* Progress along "written as legacy, read back, encoded again with hashing
\* active, written again": 1 after the legacy write, 2 after the read, 3
\* after the encode, 4 after the second write; 0 otherwise.
LegacyWrite(meta) ==
    /\ ~meta.do_value_hash
    /\ meta.range # None
    /\ RangeLen(meta.range) >= INNER_HASH_TRESHOLD

NodeInit ==
    /\ l_pc = "run"
    /\ l_meta = meta_for_empty
    /\ l_node \in LifeNodes
    /\ l_stored \in StoredInputs
    /\ l_phase = 0

NodeFrame == UNCHANGED <<hVars, iVars, kVars, sVars, dVars>>

\* A phase survives an operation on the record only while the stored bytes
\* are what counts (1) or the read record is being prepared (2).
KeepPhase == IF l_phase \in {1, 2} THEN l_phase ELSE 0

MetaForNew ==
    /\ l_pc = "run"
    /\ \E parent \in Parents : l_meta' = meta_for_new(parent)
    /\ l_phase' = IF l_phase = 1 THEN 1 ELSE 0
    /\ UNCHANGED <<l_pc, l_node, l_stored>>
    /\ NodeFrame

MetaForExistingInlineNode ==
    /\ l_pc = "run"
    /\ \E parent \in Parents : l_meta' = meta_for_existing_inline_node(parent)
    /\ l_phase' = IF l_phase = 1 THEN 1 ELSE 0
    /\ UNCHANGED <<l_pc, l_node, l_stored>>
    /\ NodeFrame

MetaForEmpty ==
    /\ l_pc = "run"
    /\ l_meta' = meta_for_empty
    /\ l_phase' = IF l_phase = 1 THEN 1 ELSE 0
    /\ UNCHANGED <<l_pc, l_node, l_stored>>
    /\ NodeFrame

SetStateMeta ==
    /\ l_pc = "run"
    /\ \E state_meta \in BOOL : l_meta' = set_state_meta(l_meta, state_meta)
    /\ l_phase' = KeepPhase
    /\ UNCHANGED <<l_pc, l_node, l_stored>>
    /\ NodeFrame

\* The codec reads the state meta in front of the node's bytes.
NodeReadStateMeta ==
    /\ l_pc = "run"
    /\ IF read_state_meta_panics(l_node)
       THEN l_pc' = "panic" /\ UNCHANGED l_meta
       ELSE l_pc' = l_pc /\ l_meta' = read_state_meta(l_meta, l_node)
    /\ l_phase' = KeepPhase
    /\ UNCHANGED <<l_node, l_stored>>
    /\ NodeFrame

EncodedValueCallback ==
    /\ l_pc = "run"
    /\ \E value_plan \in ValuePlans :
          /\ l_meta' = encoded_value_callback(l_meta, value_plan)
          /\ l_phase' = IF l_phase = 2 /\ value_plan.kind # "NoValue"
                           /\ l_meta.do_value_hash
                        THEN 3 ELSE KeepPhase
    /\ UNCHANGED <<l_pc, l_node, l_stored>>
    /\ NodeFrame

DecodedCallback ==
    /\ l_pc = "run"
    /\ \E node_value_plan \in {None} \cup {<<vp>> : vp \in ValuePlans} :
          l_meta' = decoded_callback(l_meta, node_value_plan)
    /\ l_phase' = KeepPhase
    /\ UNCHANGED <<l_pc, l_node, l_stored>>
    /\ NodeFrame

SetAccessedValue ==
    /\ l_pc = "run"
    /\ \E accessed \in BOOL : l_meta' = set_accessed_value(l_meta, accessed)
    /\ l_phase' = KeepPhase
    /\ UNCHANGED <<l_pc, l_node, l_stored>>
    /\ NodeFrame

\* The store writes the node: stored_value(node, meta).
NodeStoredValue ==
    /\ l_pc = "run"
    /\ l_stored' = StateHasher_stored_value(l_node, l_meta)
    /\ l_phase' = IF LegacyWrite(l_meta) THEN 1
                  ELSE IF l_phase = 3 THEN 4 ELSE 0
    /\ UNCHANGED <<l_pc, l_meta, l_node>>
    /\ NodeFrame

\* The store reads the node back: extract_value(stored, parent).
NodeExtractValue ==
    /\ l_pc = "run"
    /\ IF StateHasher_extract_value_panics(l_stored)
       THEN l_pc' = "panic" /\ UNCHANGED <<l_meta, l_node, l_phase>>
       ELSE \E parent \in Parents :
               LET r == StateHasher_extract_value(l_stored, parent)
               IN  /\ l_node' = r[1]
                   /\ l_meta' = r[2]
                   /\ l_phase' = IF l_phase = 1 THEN 2 ELSE 0
                   /\ l_pc' = l_pc
    /\ UNCHANGED l_stored
    /\ NodeFrame

NodeNext ==
    \/ MetaForNew
    \/ MetaForExistingInlineNode
    \/ MetaForEmpty
    \/ SetStateMeta
    \/ NodeReadStateMeta
    \/ EncodedValueCallback
    \/ DecodedCallback
    \/ SetAccessedValue
    \/ NodeStoredValue
    \/ NodeExtractValue

\* ------------------------------------------------------------------------
\* A chain of records, each created with the one before it as parent
\* ------------------------------------------------------------------------
\* l_phase counts the records created so far and l_meta is the last one;
\* the first record of a chain is created without a parent.
LineageInit ==
    /\ l_pc = "start"
    /\ l_meta = TrieMeta_default
    /\ l_node = <<>>
    /\ l_stored = <<>>
    /\ l_phase = 0

LineageParent == IF l_phase = 0 THEN None ELSE <<l_meta>>

LineageMetaForNew ==
    /\ l_pc # "panic"
    /\ l_phase < MaxChain
    /\ l_pc' = "meta_for_new"
    /\ l_meta' = meta_for_new(LineageParent)
    /\ l_phase' = l_phase + 1
    /\ UNCHANGED <<l_node, l_stored>>
    /\ NodeFrame

LineageMetaForExistingInlineNode ==
    /\ l_pc # "panic"
    /\ l_phase < MaxChain
    /\ l_pc' = "meta_for_existing_inline_node"
    /\ l_meta' = meta_for_existing_inline_node(LineageParent)
    /\ l_phase' = l_phase + 1
    /\ UNCHANGED <<l_node, l_stored>>
    /\ NodeFrame

\* A node is fetched from the store with the last record as its parent.
LineageExtractValue ==
    /\ l_pc # "panic"
    /\ l_phase < MaxChain
    /\ \E stored \in StoredInputs :
          /\ l_stored' = stored
          /\ IF StateHasher_extract_value_panics(stored)
             THEN l_pc' = "panic" /\ UNCHANGED <<l_meta, l_phase>>
             ELSE /\ l_pc' = "extract_value"
                  /\ l_meta' = StateHasher_extract_value(stored, LineageParent)[2]
                  /\ l_phase' = l_phase + 1
    /\ UNCHANGED l_node
    /\ NodeFrame

\* The policy is switched on or off on the first record of the chain.
LineageSetStateMeta ==
    /\ l_pc # "panic"
    /\ l_phase = 1
    /\ \E state_meta \in BOOL : l_meta' = set_state_meta(l_meta, state_meta)
    /\ l_pc' = "set_state_meta"
    /\ UNCHANGED <<l_node, l_stored, l_phase>>
    /\ NodeFrame

LineageNext ==
    \/ LineageMetaForNew
    \/ LineageMetaForExistingInlineNode
    \/ LineageExtractValue
    \/ LineageSetStateMeta

\* ------------------------------------------------------------------------
\* KeySpacedDB / KeySpacedDBMut over one shared backing store
\* ------------------------------------------------------------------------
\* A Prefix is <<bytes, aux>>, aux being None or <<byte>> (Option<u8>).
\* Faulty variant: the keyspace is left out of the derived prefix.
keyspace_as_prefix_alloc_drops_keyspace(ks, prefix) == <<prefix[1], prefix[2]>>

\* Faulty variant: the prefix's optional last byte is lost.
keyspace_as_prefix_alloc_drops_padding(ks, prefix) == <<ks \o prefix[1], None>>

keyspace_as_prefix_alloc(ks, prefix) == <<ks \o prefix[1], prefix[2]>>

\* The backing store (the DB type parameter): entries <<key, prefix, value>>,
\* at most one per (key, prefix).
DbGet(db, key, prefix) ==
    IF \E e \in db : e[1] = key /\ e[2] = prefix
    THEN <<(CHOOSE e \in db : e[1] = key /\ e[2] = prefix)[3]>>
    ELSE None

DbContains(db, key, prefix) == \E e \in db : e[1] = key /\ e[2] = prefix

\* The stores of this crate (MemoryDB, PrefixedMemoryDB) keep
\* StateHasher::stored_value(value, meta) under StateHasher::hash(value, meta)
\* and read it back through StateHasher::extract_value.
DbGetWithMeta(db, key, prefix, parent) ==
    IF DbGet(db, key, prefix) = None THEN None
    ELSE <<StateHasher_extract_value(DbGet(db, key, prefix)[1], parent)>>

DbEmplace(db, key, prefix, value) ==
    {e \in db : ~(e[1] = key /\ e[2] = prefix)} \cup {<<key, prefix, value>>}

DbInsert(db, prefix, value) == DbEmplace(db, H_hash(value), prefix, value)

DbInsertWithMeta(db, prefix, value, meta) ==
    DbEmplace(db, StateHasher_hash(value, meta), prefix,
              StateHasher_stored_value(value, meta))

DbRemove(db, key, prefix) == {e \in db : ~(e[1] = key /\ e[2] = prefix)}

\* access_from takes no prefix: the store answers from the key alone.
DbAccessFrom(db, key, at) ==
    IF \E e \in db : e[1] = key
    THEN <<(CHOOSE e \in db : e[1] = key)[3]>>
    ELSE None

\* Faulty variant: only what was written under the view's keyspace is found.
KeySpacedDB_access_from_keyspaced(db, ks, key, at) ==
    DbGet(db, key, keyspace_as_prefix_alloc(ks, <<<<>>, None>>))

\* KeySpacedDB (HashDBRef) with keyspace ks over db.
KeySpacedDB_access_from(db, ks, key, at) == DbAccessFrom(db, key, at)

KeySpacedDBMut_access_from(db, ks, key, at) == DbAccessFrom(db, key, at)

KeySpacedDB_get(db, ks, key, prefix) ==
    DbGet(db, key, keyspace_as_prefix_alloc(ks, prefix))

KeySpacedDB_get_with_meta(db, ks, key, prefix, parent) ==
    DbGetWithMeta(db, key, keyspace_as_prefix_alloc(ks, prefix), parent)

KeySpacedDB_contains(db, ks, key, prefix) ==
    DbContains(db, key, keyspace_as_prefix_alloc(ks, prefix))

\* KeySpacedDBMut (HashDB) with keyspace ks over db.
KeySpacedDBMut_get(db, ks, key, prefix) ==
    DbGet(db, key, keyspace_as_prefix_alloc(ks, prefix))

KeySpacedDBMut_get_with_meta(db, ks, key, prefix, parent) ==
    DbGetWithMeta(db, key, keyspace_as_prefix_alloc(ks, prefix), parent)

KeySpacedDBMut_contains(db, ks, key, prefix) ==
    DbContains(db, key, keyspace_as_prefix_alloc(ks, prefix))

KeySpacedDBMut_insert(db, ks, prefix, value) ==
    DbInsert(db, keyspace_as_prefix_alloc(ks, prefix), value)

KeySpacedDBMut_insert_with_meta(db, ks, prefix, value, meta) ==
    DbInsertWithMeta(db, keyspace_as_prefix_alloc(ks, prefix), value, meta)

KeySpacedDBMut_emplace(db, ks, key, prefix, value) ==
    DbEmplace(db, key, keyspace_as_prefix_alloc(ks, prefix), value)

KeySpacedDBMut_remove(db, ks, key, prefix) ==
    DbRemove(db, key, keyspace_as_prefix_alloc(ks, prefix))

\* Keyspaces, one of them a prefix of another.
Keyspaces == {<<7>>, <<9>>, <<7, 8>>}

Prefixes == {<<<<>>, None>>, <<<<8>>, None>>, <<<<>>, <<4>>>>}

StoreValues == {LeafNode(1), <<EMPTY_TRIE>>}

StoreKeys == {H_hash(v) : v \in StoreValues}

StoreInit ==
    /\ s_db = {}
    /\ s_log = {}
    /\ s_n = 0

StoreFrame == UNCHANGED <<hVars, iVars, kVars, lVars, dVars>>

\* s_log remembers through which keyspace, at which original prefix, each
\* key was written.
ViewInsert ==
    /\ s_n < MaxDbOps
    /\ \E ks \in Keyspaces, prefix \in Prefixes, value \in StoreValues :
          /\ s_db' = KeySpacedDBMut_insert(s_db, ks, prefix, value)
          /\ s_log' = s_log \cup {<<ks, prefix, H_hash(value)>>}
    /\ s_n' = s_n + 1
    /\ StoreFrame

ViewInsertWithMeta ==
    /\ s_n < MaxDbOps
    /\ \E ks \in Keyspaces, prefix \in Prefixes, value \in StoreValues :
          /\ s_db' = KeySpacedDBMut_insert_with_meta(s_db, ks, prefix, value,
                                                     TrieMeta_default)
          /\ s_log' = s_log \cup
                 {<<ks, prefix, StateHasher_hash(value, TrieMeta_default)>>}
    /\ s_n' = s_n + 1
    /\ StoreFrame

ViewEmplace ==
    /\ s_n < MaxDbOps
    /\ \E ks \in Keyspaces, prefix \in Prefixes, value \in StoreValues :
          /\ s_db' = KeySpacedDBMut_emplace(s_db, ks, H_hash(value), prefix, value)
          /\ s_log' = s_log \cup {<<ks, prefix, H_hash(value)>>}
    /\ s_n' = s_n + 1
    /\ StoreFrame

ViewRemove ==
    /\ s_n < MaxDbOps
    /\ \E ks \in Keyspaces, prefix \in Prefixes, key \in StoreKeys :
          s_db' = KeySpacedDBMut_remove(s_db, ks, key, prefix)
    /\ s_n' = s_n + 1
    /\ UNCHANGED s_log
    /\ StoreFrame

StoreNext == ViewInsert \/ ViewInsertWithMeta \/ ViewEmplace \/ ViewRemove

\* ------------------------------------------------------------------------
\* delta_trie_root
\* ------------------------------------------------------------------------
\* l.cmp(r) on byte slices is Less: byte-lexicographic, a proper prefix first.
RECURSIVE LexLess(_, _)
LexLess(l, r) ==
    IF r = <<>> THEN FALSE
    ELSE IF l = <<>> THEN TRUE
    ELSE IF l[1] # r[1] THEN l[1] < r[1]
    ELSE LexLess(Tail(l), Tail(r))

\* A delta entry is <<key, change>>, change being None or <<value>>.
\* Where entry e goes in the sorted q: behind every entry whose key is not
\* greater (slice::sort_by is stable).
\* Faulty variant: the entry goes in front of the entries with its key.
RECURSIVE InsertByKey_before_equal(_, _)
InsertByKey_before_equal(q, e) ==
    IF q = <<>> THEN <<e>>
    ELSE IF ~LexLess(q[1][1], e[1]) THEN <<e>> \o q
    ELSE <<q[1]>> \o InsertByKey_before_equal(Tail(q), e)

RECURSIVE InsertByKey(_, _)
InsertByKey(q, e) ==
    IF q = <<>> THEN <<e>>
    ELSE IF LexLess(e[1], q[1][1]) THEN <<e>> \o q
    ELSE <<q[1]>> \o InsertByKey(Tail(q), e)

RECURSIVE SortFrom(_, _)
SortFrom(sorted, rest) ==
    IF rest = <<>> THEN sorted
    ELSE SortFrom(InsertByKey(sorted, rest[1]), Tail(rest))

\* Faulty variant: the entries are applied as enumerated.
SortByKey_unsorted(delta) == delta

\* delta.sort_by(|l, r| l.0.borrow().cmp(r.0.borrow()))
SortByKey(delta) == SortFrom(<<>>, delta)

DeltaKeys == {<<1>>, <<1, 2>>, <<2, 3>>}

DeltaValues == {<<1>>, <<4, 5>>}

DeltaEntries == DeltaKeys \X ({None} \cup {<<v>> : v \in DeltaValues})

\* The trie behind a root, as the engine's contract gives it: the value (or
\* None) under each key.
EmptyContent == [k \in DeltaKeys |-> None]

OldContents ==
    {EmptyContent,
     [k \in DeltaKeys |-> IF k = <<1, 2>> THEN <<<<1>>>>
                          ELSE IF k = <<2, 3>> THEN <<<<4, 5>>>> ELSE None]}

\* trie.insert(key, val) / trie.remove(key); removing an absent key changes
\* nothing.
TrieInsert(content, key, val) == [content EXCEPT ![key] = <<val>>]

TrieRemove(content, key) == [content EXCEPT ![key] = None]

\* The root the engine commits: a digest of the content, key by key in order.
RECURSIVE EncodeContent(_, _)
EncodeContent(content, keys) ==
    IF keys = {} THEN <<>>
    ELSE LET k == CHOOSE x \in keys : \A y \in keys : y = x \/ LexLess(x, y)
         IN  (IF content[k] = None THEN <<>>
              ELSE <<Len(k)>> \o k \o <<Len(content[k][1])>> \o content[k][1])
                 \o EncodeContent(content, keys \ {k})

TrieRoot(content) == H_hash(EncodeContent(content, DeltaKeys))

DeltaInit ==
    /\ d_pc = "start"
    /\ d_input \in SeqsUpTo(DeltaEntries, MaxDelta)
    /\ d_present \in BOOL
    /\ d_old \in OldContents
    /\ d_delta = <<>>
    /\ d_trie = <<>>
    /\ d_calls = <<>>
    /\ d_root = TrieRoot(d_old)

DeltaFrame == UNCHANGED <<hVars, iVars, kVars, lVars, sVars>>

\* TrieDBMut::from_existing(db, &mut root)?: an error when the root is not in
\* the store.
FromExisting ==
    /\ d_pc = "start"
    /\ IF d_present
       THEN d_pc' = "opened" /\ d_trie' = d_old
       ELSE d_pc' = "err" /\ UNCHANGED d_trie
    /\ UNCHANGED <<d_input, d_present, d_old, d_delta, d_calls, d_root>>
    /\ DeltaFrame

\* delta.into_iter().collect::<Vec<_>>() and the sort by key.
CollectAndSort ==
    /\ d_pc = "opened"
    /\ d_pc' = "apply"
    /\ d_delta' = SortByKey(d_input)
    /\ UNCHANGED <<d_input, d_present, d_old, d_trie, d_calls, d_root>>
    /\ DeltaFrame

\* One turn of the loop over the sorted delta.
ApplyChange ==
    /\ d_pc = "apply"
    /\ d_delta # <<>>
    /\ LET key == d_delta[1][1]
           change == d_delta[1][2]
       IN  /\ d_trie' = IF change # None THEN TrieInsert(d_trie, key, change[1])
                        ELSE TrieRemove(d_trie, key)
           /\ d_calls' = Append(d_calls, d_delta[1])
    /\ d_delta' = Tail(d_delta)
    /\ UNCHANGED <<d_pc, d_input, d_present, d_old, d_root>>
    /\ DeltaFrame

\* The handle goes out of scope: it commits into root, and Ok(root) is returned.
CommitRoot ==
    /\ d_pc = "apply"
    /\ d_delta = <<>>
    /\ d_pc' = "done"
    /\ d_root' = TrieRoot(d_trie)
    /\ UNCHANGED <<d_input, d_present, d_old, d_delta, d_trie, d_calls>>
    /\ DeltaFrame

DeltaNext == FromExisting \/ CollectAndSort \/ ApplyChange \/ CommitRoot

\* ------------------------------------------------------------------------
\* Parts not exercised by a specification stay idle
\* ------------------------------------------------------------------------
NodeIdle ==
    /\ l_pc = "idle"
    /\ l_meta = TrieMeta_default
    /\ l_node = <<>>
    /\ l_stored = <<>>
    /\ l_phase = 0

StoreIdle ==
    /\ s_db = {}
    /\ s_log = {}
    /\ s_n = 0

DeltaIdle ==
    /\ d_pc = "idle"
    /\ d_input = <<>>
    /\ d_present = FALSE
    /\ d_old = <<>>
    /\ d_delta = <<>>
    /\ d_trie = <<>>
    /\ d_calls = <<>>
    /\ d_root = <<>>

\* ------------------------------------------------------------------------
\* Specifications
\* ------------------------------------------------------------------------
InitHasher ==
    HasherInit /\ InnerIdle /\ MarkerIdle /\ NodeIdle /\ StoreIdle /\ DeltaIdle

SpecHasher == InitHasher /\ [][HasherNext]_vars

InitInner ==
    InnerInit /\ HasherIdle /\ MarkerIdle /\ NodeIdle /\ StoreIdle /\ DeltaIdle

SpecInner == InitInner /\ [][InnerNext]_vars

InitMarker ==
    MarkerInit /\ HasherIdle /\ InnerIdle /\ NodeIdle /\ StoreIdle /\ DeltaIdle

SpecMarker == InitMarker /\ [][MarkerNext]_vars

InitNode ==
    NodeInit /\ HasherIdle /\ InnerIdle /\ MarkerIdle /\ StoreIdle /\ DeltaIdle

SpecNode == InitNode /\ [][NodeNext]_vars

InitKeyspace ==
    StoreInit /\ HasherIdle /\ InnerIdle /\ MarkerIdle /\ NodeIdle /\ DeltaIdle

SpecKeyspace == InitKeyspace /\ [][StoreNext]_vars

SpecStoreLoad == InitHasher /\ [][StoreLoadNext]_vars

InitLineage ==
    LineageInit /\ HasherIdle /\ InnerIdle /\ MarkerIdle /\ StoreIdle /\ DeltaIdle

SpecLineage == InitLineage /\ [][LineageNext]_vars

InitReload ==
    ReloadInit /\ InnerIdle /\ MarkerIdle /\ NodeIdle /\ StoreIdle /\ DeltaIdle

SpecReload == InitReload /\ [][ReloadNext]_vars

InitEstimate ==
    EstimateInit /\ InnerIdle /\ MarkerIdle /\ NodeIdle /\ StoreIdle /\ DeltaIdle

SpecEstimate == InitEstimate /\ [][EstimateNext]_vars

InitNoMeta ==
    NoMetaInit /\ InnerIdle /\ MarkerIdle /\ NodeIdle /\ StoreIdle /\ DeltaIdle

SpecNoMeta == InitNoMeta /\ [][NoMetaNext]_vars

InitDelta ==
    DeltaInit /\ HasherIdle /\ InnerIdle /\ MarkerIdle /\ NodeIdle /\ StoreIdle

SpecDelta == InitDelta /\ [][DeltaNext]_vars

\* ------------------------------------------------------------------------
\* Properties of StateHasher
\* ------------------------------------------------------------------------
LongRange(meta) ==
    meta.range # None /\ meta.range[2] - meta.range[1] >= 33

\* C4: stored_value returns the result of the first matching rule, in the
\* order (1) old_hash -> legacy marker ++ value, (2) hashing inactive and
\* range length >= 33 -> legacy marker ++ value, (3) contain_hash ->
\* stored-hash marker ++ value, (4) unused and range length >= 33 ->
\* stored-hash marker ++ inner-hashed value, (5) value unchanged; so at most
\* one marker byte precedes the payload.
C4_StoredValueRules ==
    h_op = "stored_value" =>
        LET v == h_value
            m == h_meta
            r1 == m.old_hash
            r2 == ~m.do_value_hash /\ LongRange(m)
            r3 == m.contain_hash
            r4 == m.unused_value /\ LongRange(m)
            payload == IF ~r1 /\ ~r2 /\ ~r3 /\ r4
                       THEN inner_hashed_value(v, m.range) ELSE v
        IN  /\ r1 => h_out = <<3>> \o v
            /\ ~r1 /\ r2 => h_out = <<3>> \o v
            /\ ~r1 /\ ~r2 /\ r3 => h_out = <<2>> \o v
            /\ ~r1 /\ ~r2 /\ ~r3 /\ r4 => h_out = <<2>> \o payload
            /\ ~r1 /\ ~r2 /\ ~r3 /\ ~r4 => h_out = v
            /\ h_out \in {payload, <<2>> \o payload, <<3>> \o payload}

\* Rule 4 fired on a flagged, legacy-free record and replaced the value bytes.
C4_Witness ==
    /\ h_op = "stored_value"
    /\ ~h_meta.old_hash /\ h_meta.do_value_hash /\ ~h_meta.contain_hash
    /\ h_meta.unused_value /\ LongRange(h_meta)
    /\ h_out # <<2>> \o h_value
    /\ Len(h_out) < Len(h_value)

\* C5: hash(value, meta) is the digest of the inner-hashed transform exactly
\* when meta has a range of length >= 33, contain_hash and old_hash are false
\* and do_value_hash is true; otherwise it is the digest of the raw bytes.
C5_HashRule ==
    h_op = "hash" =>
        LET inner == /\ LongRange(h_meta)
                     /\ ~h_meta.contain_hash
                     /\ ~h_meta.old_hash
                     /\ h_meta.do_value_hash
        IN  /\ inner => h_out = H_hash(inner_hashed_value(h_value, h_meta.range))
            /\ ~inner => h_out = H_hash(h_value)

\* The digest was taken over the transformed node and differs from the plain one.
C5_Witness ==
    /\ h_op = "hash"
    /\ LongRange(h_meta) /\ ~h_meta.contain_hash /\ ~h_meta.old_hash
    /\ h_meta.do_value_hash
    /\ inner_hashed_value(h_value, h_meta.range) # h_value
    /\ h_out # H_hash(h_value)

\* Number of marker bytes extract_value strips from s: a stored-hash marker,
\* then a legacy marker, at most one of each, in that order.
StrippedHashed(s) == Len(s) >= 1 /\ s[1] = 2
StrippedOld(s) ==
    \/ Len(s) >= 1 /\ s[1] = 3
    \/ Len(s) >= 2 /\ s[1] = 2 /\ s[2] = 3
StrippedCount(s) ==
    (IF StrippedHashed(s) THEN 1 ELSE 0) + (IF StrippedOld(s) THEN 1 ELSE 0)

\* C6: extract_value strips at most one stored-hash marker and then at most
\* one legacy marker, sets contain_hash / old_hash to whether each was
\* stripped, leaves range absent, reads recorded_do_value_hash from the first
\* remaining byte without consuming it, and returns the remaining bytes.
C6_ExtractValue ==
    h_op \in {"extract_value", "extract_value_owned"} =>
        LET s == h_stored
            k == StrippedCount(s)
        IN  /\ h_out[1] = SubSeq(s, k + 1, Len(s))
            /\ h_out[2].contain_hash = StrippedHashed(s)
            /\ h_out[2].old_hash = StrippedOld(s)
            /\ h_out[2].range = None
            /\ h_out[2].recorded_do_value_hash = (s[k + 1] = 1)

\* Both markers were stripped and the policy marker behind them was kept.
C6_Witness ==
    /\ h_op = "extract_value"
    /\ Len(h_stored) = 3
    /\ h_stored[1] = 2 /\ h_stored[2] = 3 /\ h_stored[3] = 1
    /\ h_out[1] = <<1>>
    /\ h_out[2].recorded_do_value_hash

\* C8: with a recorded range of exactly 32 bytes neither stored_value nor
\* hash applies the inner-hash transform, whatever the flags; with a range of
\* exactly 33 bytes, unused, hashing active, not legacy and not already a
\* hash, stored_value is the stored-hash marker followed by the transform.
C8_ThresholdBoundary ==
    LET m == h_meta
        n == IF m.range = None THEN 0 ELSE m.range[2] - m.range[1]
    IN  /\ h_op = "stored_value" /\ n = 32 =>
               h_out \in {h_value, <<2>> \o h_value, <<3>> \o h_value}
        /\ h_op = "hash" /\ n = 32 => h_out = H_hash(h_value)
        /\ h_op = "stored_value" /\ n = 33 /\ m.unused_value /\ m.do_value_hash
               /\ ~m.old_hash /\ ~m.contain_hash =>
               h_out = <<2>> \o inner_hashed_value(h_value, m.range)

\* A 33-byte value was replaced by its digest in the stored bytes.
C8_Witness ==
    /\ h_op = "stored_value"
    /\ h_meta.range = <<3, 36>>
    /\ h_value = LeafNode(33)
    /\ h_meta.unused_value /\ h_meta.do_value_hash
    /\ ~h_meta.old_hash /\ ~h_meta.contain_hash
    /\ h_out = <<2, 66, 170, 132>> \o H_hash(Fill(33, 187))

\* A 32-byte value went through stored_value with the same flags, untouched.
C8_WitnessBelow ==
    /\ h_op = "stored_value"
    /\ h_meta.range = <<3, 35>>
    /\ h_value = LeafNode(32)
    /\ h_meta.unused_value /\ h_meta.do_value_hash
    /\ h_out = h_value

\* ------------------------------------------------------------------------
\* Properties of inner_hashed_value
\* ------------------------------------------------------------------------
\* The length law and the untouched bytes, for the call that was made.
InnerLengthLaw ==
    LET start == i_range[1]
        end == i_range[2]
        len == Len(i_x)
    IN  /\ Len(i_out) = len - (end - start) + HashLen
        /\ SubSeq(i_out, 1, start) = SubSeq(i_x, 1, start)
        /\ SubSeq(i_out, start + HashLen + 1, Len(i_out)) = SubSeq(i_x, end + 1, len)

ValidSubRange(x, range) ==
    range # None /\ 0 <= range[1] /\ range[1] <= range[2] /\ range[2] <= Len(x)

\* C7 as stated: for every b and every sub-range 0 <= start <= end <= len(b),
\* inner_hashed_value(b, r) has length len(b) - len(r) + digest_len, starts
\* with b[..start] and ends, after the digest, with b[end..].
C7_LengthLawAnyValidRange ==
    i_op = "inner_hashed_value" /\ ValidSubRange(i_x, i_range) => InnerLengthLaw

\* C7, amended: the same for every valid sub-range that starts inside b
\* (start < len(b)); a range starting at len(b) leaves b unchanged.
C7_LengthLaw ==
    /\ i_op = "inner_hashed_value" /\ ValidSubRange(i_x, i_range)
           /\ i_range[1] < Len(i_x) => InnerLengthLaw
    /\ i_op = "inner_hashed_value" /\ ValidSubRange(i_x, i_range)
           /\ i_range[1] = Len(i_x) => i_out = i_x

\* A middle range was replaced: bytes remain on both sides of the digest.
C7_Witness ==
    /\ i_op = "inner_hashed_value"
    /\ Len(i_x) = 3
    /\ i_range = <<1, 2>>
    /\ Len(i_out) = HashLen + 2
    /\ i_out[1] = i_x[1]
    /\ i_out[Len(i_out)] = i_x[3]

\* ------------------------------------------------------------------------
\* Properties of the state-meta marker
\* ------------------------------------------------------------------------
MarkerRoundTrip ==
    /\ k_offset = Len(write_state_meta(k_m))
    /\ k_reader.recorded_do_value_hash = k_m.recorded_do_value_hash
    /\ k_reader.do_value_hash = k_m.recorded_do_value_hash

\* C3 as stated: for every record m and every tail, read_state_meta on
\* write_state_meta(m) ++ tail returns len(write_state_meta(m)) and leaves
\* the reading record with the hash-policy flags m records.
C3_RoundTripAnyTail ==
    k_op = "read" => MarkerRoundTrip

\* C3, amended: the same when m records the flag (any tail), and when m
\* records nothing for every non-empty tail whose first byte is not the
\* policy-active marker.
C3_RoundTrip ==
    k_op = "read" /\ (k_m.recorded_do_value_hash \/ k_tail[1] # 1) => MarkerRoundTrip

\* A recorded flag was read back in front of a tail that starts with the
\* marker byte itself.
C3_Witness ==
    /\ k_op = "read"
    /\ k_m.recorded_do_value_hash
    /\ k_tail # <<>> /\ k_tail[1] = 1
    /\ k_offset = 1
    /\ k_reader.recorded_do_value_hash /\ k_reader.do_value_hash

\* ------------------------------------------------------------------------
\* Properties of a node's life
\* ------------------------------------------------------------------------
\* C9: a node written by stored_value while hashing is inactive with a range
\* of length >= 33 carries the legacy marker and reads back through
\* extract_value with old_hash set; once it is encoded with a value while
\* do_value_hash is true, old_hash is cleared and the following stored_value
\* does not emit the legacy marker.
C9_LegacyMigration ==
    /\ l_phase = 1 => l_stored = <<3>> \o l_node
    /\ l_phase = 2 => l_meta.old_hash /\ l_stored = <<3>> \o l_node
    /\ l_phase = 3 => ~l_meta.old_hash /\ l_meta.do_value_hash
    /\ l_phase = 4 => ~l_meta.old_hash /\ l_stored # <<3>> \o l_node

\* The whole sequence ran on a 33-byte value, which ends hash-substituted.
C9_Witness ==
    /\ l_phase = 4
    /\ l_node = LeafNode(33)
    /\ l_stored = <<2, 66, 170, 132>> \o H_hash(Fill(33, 187))

\* C10: contain_hash and old_hash are never both true in a record reachable
\* through the constructors, the callbacks, set_state_meta / read_state_meta
\* and extract_value on any stored bytes.
C10_MarkersExclusive ==
    ~(l_meta.contain_hash /\ l_meta.old_hash)

\* ------------------------------------------------------------------------
\* Properties of the keyspace views
\* ------------------------------------------------------------------------
SeenThrough(ks, key, prefix) ==
    \/ KeySpacedDB_get(s_db, ks, key, prefix) # None
    \/ KeySpacedDB_contains(s_db, ks, key, prefix)
    \/ \E parent \in Parents :
          KeySpacedDB_get_with_meta(s_db, ks, key, prefix, parent) # None
    \/ KeySpacedDBMut_get(s_db, ks, key, prefix) # None
    \/ KeySpacedDBMut_contains(s_db, ks, key, prefix)
    \/ \E parent \in Parents :
          KeySpacedDBMut_get_with_meta(s_db, ks, key, prefix, parent) # None

\* C2: an entry written through a KeySpacedDBMut with tag A is absent (get,
\* get_with_meta, contains) when the same key and the same original prefix
\* are read through a view with a tag B # A: whatever a view with tag B sees
\* at (key, prefix) was written through B, or at another original prefix.
C2_KeyspaceIsolation ==
    \A b \in Keyspaces, key \in StoreKeys, prefix \in Prefixes :
        SeenThrough(b, key, prefix) =>
            \E e \in s_log : e[3] = key /\ (e[1] = b \/ e[2] # prefix)

\* An entry written under <<7>> is in the store, seen through <<7>> and
\* through no other tag at the same prefix.
C2_Witness ==
    /\ s_log = {<<<<7>>, <<<<8>>, None>>, H_hash(LeafNode(1))>>}
    /\ SeenThrough(<<7>>, H_hash(LeafNode(1)), <<<<8>>, None>>)
    /\ ~SeenThrough(<<9>>, H_hash(LeafNode(1)), <<<<8>>, None>>)
    /\ ~SeenThrough(<<7, 8>>, H_hash(LeafNode(1)), <<<<8>>, None>>)

\* ------------------------------------------------------------------------
\* Properties of delta_trie_root
\* ------------------------------------------------------------------------
BatchOf(delta) == {delta[i] : i \in 1..Len(delta)}

UniqueKeys(delta) ==
    \A i, j \in 1..Len(delta) : delta[i][1] = delta[j][1] => i = j

\* The entries of a batch with unique keys, by ascending key.
RECURSIVE Ascending(_)
Ascending(batch) ==
    IF batch = {} THEN <<>>
    ELSE LET e == CHOOSE x \in batch :
                      \A y \in batch : y = x \/ LexLess(x[1], y[1])
         IN  <<e>> \o Ascending(batch \ {e})

\* The content a batch with unique keys leads to, whatever its order.
ContentAfter(old, batch) ==
    [k \in DeltaKeys |->
        IF \E e \in batch : e[1] = k
        THEN (CHOOSE e \in batch : e[1] = k)[2]
        ELSE old[k]]

\* C1: for a root present in the store and a batch with unique keys, the
\* new root is the same for every enumeration order: the entries reach the
\* trie one at a time in ascending key order, and the root returned is the
\* one of the batch applied to the old content.
C1_OrderIndependence ==
    d_pc = "done" /\ UniqueKeys(d_input) =>
        /\ d_calls = Ascending(BatchOf(d_input))
        /\ d_root = TrieRoot(ContentAfter(d_old, BatchOf(d_input)))

\* The batch {(0102, 01), (0203, 0405)} was enumerated in descending key
\* order over the empty trie and the call returned its root.
C1_Witness ==
    /\ d_pc = "done"
    /\ d_input = << <<<<2, 3>>, <<<<4, 5>>>>>>, <<<<1, 2>>, <<<<1>>>>>> >>
    /\ d_old = EmptyContent
    /\ d_calls = << <<<<1, 2>>, <<<<1>>>>>>, <<<<2, 3>>, <<<<4, 5>>>>>> >>
    /\ d_root # TrieRoot(d_old)

\* ------------------------------------------------------------------------
\* Properties of NoMetaHasher
\* ------------------------------------------------------------------------
\* C11: under NoMetaHasher the hash is the plain digest of the raw bytes
\* whatever the record, stored_value (borrowed and owned) returns the raw
\* bytes, and extract_value (borrowed and owned) returns the stored bytes
\* with an all-default record, so that a value written and read back is
\* the value, reserved leading bytes included.
C11_NoMetaHasher ==
    /\ h_op = "hash" => h_out = H_hash(h_value)
    /\ h_op \in {"stored_value", "stored_value_owned"} => h_stored = h_value
    /\ h_op \in {"extract_value", "extract_value_owned"} =>
          /\ h_stored = h_value
          /\ h_out = <<h_value, TrieMeta_default>>

\* A value starting with the stored-hash marker, written with a record that
\* says legacy and hashed, was read back.
C11_Witness ==
    /\ h_op = "extract_value"
    /\ h_value = <<DEAD_HEADER_META_HASHED_VALUE, OLD_HASHING, 66>>
    /\ h_meta.old_hash /\ h_meta.contain_hash /\ h_meta.do_value_hash
    /\ h_parent # None /\ h_parent[1].do_value_hash
    /\ h_out[1] = h_value
    /\ StateHasher_extract_value(h_stored, h_parent)[1] # h_value

\* ------------------------------------------------------------------------
\* Properties of the keyspace views: delegation
\* ------------------------------------------------------------------------
\* The prefix the backing store is to be addressed with.
EffectivePrefix(ks, prefix) == <<ks \o prefix[1], prefix[2]>>

\* C12: every prefixed operation of KeySpacedDB (get, get_with_meta,
\* contains) and of KeySpacedDBMut (the same three, insert,
\* insert_with_meta, emplace, remove) is the backing store's operation with
\* the same key and value and the prefix (tag ++ prefix bytes, the prefix's
\* optional byte unchanged); both views derive the same prefix; and every
\* entry of the backing store sits under the effective prefix of a write
\* made through a view.
C12_Delegation ==
    /\ \A e \in s_db :
          \E w \in s_log : e[1] = w[3] /\ e[2] = EffectivePrefix(w[1], w[2])
    /\ \A ks \in Keyspaces, prefix \in Prefixes, key \in StoreKeys :
          LET eff == EffectivePrefix(ks, prefix)
          IN  /\ KeySpacedDB_get(s_db, ks, key, prefix) = DbGet(s_db, key, eff)
              /\ KeySpacedDB_contains(s_db, ks, key, prefix)
                    = DbContains(s_db, key, eff)
              /\ KeySpacedDBMut_get(s_db, ks, key, prefix)
                    = KeySpacedDB_get(s_db, ks, key, prefix)
              /\ KeySpacedDBMut_contains(s_db, ks, key, prefix)
                    = KeySpacedDB_contains(s_db, ks, key, prefix)
              /\ KeySpacedDBMut_remove(s_db, ks, key, prefix)
                    = DbRemove(s_db, key, eff)
              /\ \A parent \in Parents :
                    /\ KeySpacedDB_get_with_meta(s_db, ks, key, prefix, parent)
                          = DbGetWithMeta(s_db, key, eff, parent)
                    /\ KeySpacedDBMut_get_with_meta(s_db, ks, key, prefix, parent)
                          = KeySpacedDB_get_with_meta(s_db, ks, key, prefix, parent)
              /\ \A value \in StoreValues :
                    /\ KeySpacedDBMut_insert(s_db, ks, prefix, value)
                          = DbInsert(s_db, eff, value)
                    /\ KeySpacedDBMut_insert_with_meta(s_db, ks, prefix, value,
                                                       TrieMeta_default)
                          = DbInsertWithMeta(s_db, eff, value, TrieMeta_default)
                    /\ KeySpacedDBMut_emplace(s_db, ks, key, prefix, value)
                          = DbEmplace(s_db, key, eff, value)

\* An entry written under tag 09 with prefix (empty, Some(04)) is in the
\* backing store under (09, Some(04)) and nowhere under the original prefix.
C12_Witness ==
    \E key \in StoreKeys :
        /\ <<key, <<<<9>>, <<4>>>>, LeafNode(1)>> \in s_db
        /\ <<<<9>>, <<<<>>, <<4>>>>, key>> \in s_log
        /\ KeySpacedDB_get(s_db, <<9>>, key, <<<<>>, <<4>>>>) = <<LeafNode(1)>>
        /\ DbGet(s_db, key, <<<<>>, <<4>>>>) = None

\* ------------------------------------------------------------------------
\* Properties of inner_hashed_value: the digest and the fallback
\* ------------------------------------------------------------------------
TerminalRange(x, range) == range[1] < Len(x) /\ range[2] = Len(x)

InitialRange(x, range) == range[1] = 0 /\ range[2] < Len(x)

MiddleRange(x, range) == range[1] < Len(x) /\ range[2] < Len(x)

\* C14: for every byte sequence and every valid range of the terminal,
\* initial or middle case, the result is
\* bytes[..start] ++ digest(bytes[start..end]) ++ bytes[end..]: the digest
\* spliced in is the digest of exactly the replaced bytes.
C14_DigestOfReplacedRange ==
    /\ i_op = "inner_hashed_value"
    /\ ValidSubRange(i_x, i_range)
    /\ \/ TerminalRange(i_x, i_range)
       \/ InitialRange(i_x, i_range)
       \/ MiddleRange(i_x, i_range)
    => i_out = Slice(i_x, 0, i_range[1])
                  \o H_hash(Slice(i_x, i_range[1], i_range[2]))
                  \o Slice(i_x, i_range[2], Len(i_x))

\* ------------------------------------------------------------------------
\* Properties of read_state_meta: totality
\* ------------------------------------------------------------------------
\* C15: read_state_meta cannot fail for any input byte sequence, the empty
\* one included: once called it has returned, with 1 and both hash-policy
\* flags set when the first byte is the policy-active marker, and with 0
\* otherwise.
C15_ReadStateMetaCannotFail ==
    k_op \notin {"input", "written"} =>
        /\ k_op = "read"
        /\ IF k_data # <<>> /\ k_data[1] = ENCODED_META_ALLOW_HASH
           THEN /\ k_offset = 1
                /\ k_reader.recorded_do_value_hash
                /\ k_reader.do_value_hash
           ELSE k_offset = 0

\* C16: for every byte sequence and every range that is not a terminal,
\* initial or middle range (end beyond the length, start at or beyond the
\* length, start greater than end, or no range), inner_hashed_value returns
\* the input unchanged and does not fail.
C16_OtherRangesReturnInput ==
    /\ i_op # "input"
    /\ ~(/\ ValidSubRange(i_x, i_range)
         /\ \/ TerminalRange(i_x, i_range)
            \/ InitialRange(i_x, i_range)
            \/ MiddleRange(i_x, i_range))
    => i_op = "inner_hashed_value" /\ i_out = i_x

RecordCreated == l_phase' = l_phase + 1

ParentPolicy == l_phase > 0 /\ l_meta.do_value_hash

InheritsPolicy ==
    RecordCreated =>
        /\ l_pc' \in {"meta_for_new", "meta_for_existing_inline_node"} =>
              l_meta' = [TrieMeta_default EXCEPT !.do_value_hash = ParentPolicy]
        /\ l_pc' = "extract_value" =>
              l_meta'.do_value_hash
                  = (l_meta'.recorded_do_value_hash \/ ParentPolicy)
        /\ ParentPolicy => l_meta'.do_value_hash

\* C18: meta_for_new and meta_for_existing_inline_node return a record
\* that is all-default except do_value_hash, which is the parent's (false
\* without a parent); extract_value sets do_value_hash to (recorded flag OR
\* parent's do_value_hash); so every record created from a parent with
\* do_value_hash true has it true, all along a chain.
C18_PolicyInheritance == [][InheritsPolicy]_vars

\* The third record of a chain was read from the store without a recorded
\* policy and has the policy of its ancestors.
C18_Witness ==
    /\ l_phase = 3
    /\ l_pc = "extract_value"
    /\ l_meta.do_value_hash
    /\ ~l_meta.recorded_do_value_hash

\* ------------------------------------------------------------------------
\* Properties of a fresh record
\* ------------------------------------------------------------------------
\* A record was just created by one of the three constructors.
FreshRecord == MetaForNew \/ MetaForExistingInlineNode \/ MetaForEmpty

\* C19 as stated: a record fresh from meta_for_new,
\* meta_for_existing_inline_node or meta_for_empty has its value flagged
\* unused: accessed_value() is false.
C19_FreshRecordUnused == [][FreshRecord => ~accessed_value(l_meta')]_vars

\* C19, amended: a fresh record has its value flagged accessed
\* (unused_value = false, accessed_value() = true); it is unused only once
\* set_accessed_value(false) has been called on it.
C19_FreshRecordAccessed ==
    [][FreshRecord =>
          /\ ~l_meta'.unused_value
          /\ accessed_value(l_meta')
          /\ ~accessed_value(set_accessed_value(l_meta', FALSE))
          /\ accessed_value(set_accessed_value(l_meta', TRUE))]_vars

\* A record fresh from a parent with hashing active: nothing but the policy
\* is set, and its value counts as accessed.
C19_Witness ==
    /\ l_pc = "run"
    /\ l_meta = [TrieMeta_default EXCEPT !.do_value_hash = TRUE]
    /\ accessed_value(l_meta)

\* ------------------------------------------------------------------------
\* Properties of delta_trie_root: duplicate keys
\* ------------------------------------------------------------------------
HasDuplicateKey(delta) == ~UniqueKeys(delta)

\* The entries of delta for one key, in enumeration order.
EntriesFor(delta, key) == SelectSeq(delta, LAMBDA e : e[1] = key)

\* The entries by ascending key, those of one key in enumeration order.
RECURSIVE GroupedByKey(_, _)
GroupedByKey(delta, keys) ==
    IF keys = {} THEN <<>>
    ELSE LET k == CHOOSE x \in keys : \A y \in keys : y = x \/ LexLess(x, y)
         IN  EntriesFor(delta, k) \o GroupedByKey(delta, keys \ {k})

\* The content when, for each key, only the last-enumerated entry counts.
ContentLastWins(old, delta) ==
    [k \in DeltaKeys |->
        IF EntriesFor(delta, k) = <<>> THEN old[k]
        ELSE EntriesFor(delta, k)[Len(EntriesFor(delta, k))][2]]

\* C20: when a batch has several entries for one key, they are applied in
\* their enumeration order (the sort by key is stable), and the root
\* returned is the root of the batch in which only the last-enumerated
\* entry of each key is kept.
C20_LastWriteWins ==
    d_pc = "done" /\ HasDuplicateKey(d_input) =>
        /\ d_calls = GroupedByKey(d_input, DeltaKeys)
        /\ d_root = TrieRoot(ContentLastWins(d_old, d_input))

\* Key 0102 was enumerated first with value 0405 and last with value 01,
\* another key in between; the root returned holds 01 under 0102.
C20_Witness ==
    /\ d_pc = "done"
    /\ d_old = EmptyContent
    /\ d_input = << <<<<1, 2>>, <<<<4, 5>>>>>>, <<<<1>>, <<<<1>>>>>>,
                    <<<<1, 2>>, <<<<1>>>>>> >>
    /\ d_trie[<<1, 2>>] = <<<<1>>>>
    /\ d_root = TrieRoot([EmptyContent EXCEPT ![<<1>>] = <<<<1>>>>,
                                              ![<<1, 2>>] = <<<<1>>>>])
    /\ d_root # TrieRoot([EmptyContent EXCEPT ![<<1>>] = <<<<1>>>>,
                                              ![<<1, 2>>] = <<<<4, 5>>>>])

\* ------------------------------------------------------------------------
\* Properties of a node stored and reloaded
\* ------------------------------------------------------------------------
DigestKept ==
    StateHasher_hash(h_value, h_meta) = StateHasher_hash(h_out[1], h_out[2])

\* C21 as stated: for every value not starting with a reserved byte and
\* every record, the digest of (value, record) is the digest of the payload
\* and record that extract_value gives back from stored_value's bytes under
\* a parent of the same policy, once decoded_callback has recorded the
\* payload's value range.
C21_DigestKeptAnyMeta == h_op = "decoded" => DigestKept

\* The record's range is where the value lies in the node.
RangeOfValue == h_meta.range = NodeValueRange(h_value)

\* C21, amended: the same for every record whose range is the value's range
\* in the node, as encoded_value_callback records it.
C21_DigestKept == h_op = "decoded" /\ RangeOfValue => DigestKept

\* A leaf with a 33-byte value, unused and under active hashing, was stored
\* with its value replaced by the digest, fetched and decoded: the payload
\* is not the node that was written, and the digest is the same.
C21_Witness ==
    /\ h_op = "decoded"
    /\ h_value = LeafNode(INNER_HASH_TRESHOLD)
    /\ RangeOfValue
    /\ h_meta.unused_value /\ h_meta.do_value_hash
    /\ ~h_meta.contain_hash /\ ~h_meta.old_hash
    /\ h_stored[1] = DEAD_HEADER_META_HASHED_VALUE
    /\ h_out[1] = inner_hashed_value(h_value, h_meta.range)
    /\ h_out[1] # h_value
    /\ h_out[2].contain_hash
    /\ StateHasher_hash(h_value, h_meta) # H_hash(h_value)
    /\ DigestKept

\* ------------------------------------------------------------------------
\* Properties of the recorded policy flag
\* ------------------------------------------------------------------------
\* C22: in every record reachable through the constructors, set_state_meta,
\* read_state_meta, the encode and decode callbacks and extract_value,
\* recorded_do_value_hash = true implies do_value_hash = true.
C22_RecordedImpliesActive ==
    l_meta.recorded_do_value_hash => l_meta.do_value_hash

\* A record read from stored bytes that start with the policy-active marker,
\* under a parent without the policy: the flag is recorded and active.
C22_Witness ==
    /\ l_pc = "run"
    /\ l_stored # <<>> /\ l_stored[1] = ENCODED_META_ALLOW_HASH
    /\ l_meta.recorded_do_value_hash
    /\ l_meta.do_value_hash
    /\ l_meta.range = None
    /\ l_phase = 0

\* ------------------------------------------------------------------------
\* Properties of the keyspace views: access_from
\* ------------------------------------------------------------------------
AccessOrigins == {None} \cup {<<k>> : k \in StoreKeys}

\* C23: access_from of KeySpacedDB and of KeySpacedDBMut is the backing
\* store's access_from with the same arguments and no keyspace applied, so
\* over one backing store its result is the same through views of any two
\* tags and the same as the backing store's own.
C23_AccessFromIgnoresTag ==
    \A key \in StoreKeys, at \in AccessOrigins, ks \in Keyspaces :
        /\ KeySpacedDB_access_from(s_db, ks, key, at)
              = DbAccessFrom(s_db, key, at)
        /\ KeySpacedDBMut_access_from(s_db, ks, key, at)
              = DbAccessFrom(s_db, key, at)
        /\ \A other \in Keyspaces :
              /\ KeySpacedDB_access_from(s_db, ks, key, at)
                    = KeySpacedDB_access_from(s_db, other, key, at)
              /\ KeySpacedDBMut_access_from(s_db, ks, key, at)
                    = KeySpacedDBMut_access_from(s_db, other, key, at)

\* An entry written under tag 07 only: access_from finds it through the
\* view of tag 09, where get, get_with_meta and contains do not, while they
\* do through the view of tag 07.
C23_Witness ==
    \E key \in StoreKeys :
        LET prefix == <<<<>>, None>>
        IN  /\ s_db = {<<key, <<<<7>>, None>>, LeafNode(1)>>}
            /\ KeySpacedDB_access_from(s_db, <<9>>, key, None) = <<LeafNode(1)>>
            /\ KeySpacedDBMut_access_from(s_db, <<9>>, key, None)
                  = <<LeafNode(1)>>
            /\ KeySpacedDB_get(s_db, <<9>>, key, prefix) = None
            /\ ~KeySpacedDB_contains(s_db, <<9>>, key, prefix)
            /\ KeySpacedDB_get_with_meta(s_db, <<9>>, key, prefix, None) = None
            /\ KeySpacedDB_get(s_db, <<7>>, key, prefix) = <<LeafNode(1)>>
            /\ KeySpacedDB_contains(s_db, <<7>>, key, prefix)
            /\ KeySpacedDB_get_with_meta(s_db, <<7>>, key, prefix, None) # None

\* ------------------------------------------------------------------------
\* Properties of estimate_entry_size
\* ------------------------------------------------------------------------
\* stored_value stores the inner-hashed transform (its fourth rule).
StoresInnerHashed(meta) ==
    /\ ~meta.old_hash
    /\ ~(~meta.do_value_hash /\ LongRange(meta))
    /\ ~meta.contain_hash
    /\ meta.unused_value /\ LongRange(meta)

\* C24: estimate_entry_size returns encoded size - range length + hash_len
\* + 1 for exactly the entries whose inner-hashed transform stored_value
\* would store, and the plain encoded size for every other entry.
C24_EstimateFollowsStoredValue ==
    h_op = "estimate_entry_size" =>
        h_out = IF StoresInnerHashed(h_meta)
                THEN encoded_size(h_value) - RangeLen(h_meta.range) + HashLen + 1
                ELSE encoded_size(h_value)

====
